---------------------------- MODULE Spec2Model ----------------------------
(***************************************************************************)
(* A model of monaco.py: the Malta point generator.                        *)
(*                                                                         *)
(* One run of the script is a sequential pipeline: resolve the boundary    *)
(* polygon, rejection-sample points inside it, write two files, POST the   *)
(* points to the driving API and write the response.                       *)
(*                                                                         *)
(* Coordinates are integers counting units of 10^-(Decimals+1) degree, one *)
(* decimal digit finer than the precision the script rounds to (and the    *)
(* resolution OpenStreetMap stores).  A point the script stores as         *)
(* (latitude, longitude) is the pair <<lat, lon>>; a polygon vertex and a  *)
(* draw are <<x, y>> = <<longitude, latitude>>.                            *)
(***************************************************************************)
EXTENDS Integers, Sequences, FiniteSets, TLC

VARIABLES
    pc,            \* position of the run in the script
    num_points,    \* args.num_points, the requested count
    net_outcome,   \* what the boundary lookup's GET did ("none" before it)
    net_attempts,  \* number of GETs made by get_malta_boundary
    boundary,      \* the value get_malta_boundary returned
    points,        \* the list `points` of generate_malta_points / malta_points
    attempts,      \* the counter `attempts`
    max_attempts,  \* the budget `max_attempts`
    warned,        \* the shortfall warning of line 111 was printed
    files,         \* the files written so far, in order
    api_format,    \* the last string format_points_for_api returned
    posts,         \* number of POSTs made
    post_outcome,  \* what the POST did (NoPost before it)
    api_response,  \* the value make_driving_api_request returned
    escaped        \* the exception that reached the top-level handler

vars == <<pc, num_points, net_outcome, net_attempts, boundary, points,
          attempts, max_attempts, warned, files, api_format, posts,
          post_outcome, api_response, escaped>>

---------------------------------------------------------------------------
(* Bounds of the model *)

\* largest count given on the command line
MaxCount == 2

\* longest point list handed to format_points_for_api on its own
MaxLen == 2

---------------------------------------------------------------------------
(* Program constants *)

\* round(latitude, 6), round(longitude, 6) and the .6f formats
Decimals == 6

\* max_attempts = num_points * 20
AttemptMultiplier == 20

---------------------------------------------------------------------------
(* Numbers *)

RECURSIVE Pow10(_)
Pow10(n) == IF n = 0 THEN 1 ELSE 10 * Pow10(n - 1)

\* units of the model per unit of the last decimal the script keeps
Grain == Pow10(1)

Abs(v) == IF v < 0 THEN -v ELSE v

Min(a, b) == IF a <= b THEN a ELSE b

Max(a, b) == IF a >= b THEN a ELSE b

\* v / Grain rounded to the nearest integer, a tie to the even one: the
\* number of 10^-Decimals units in round(v, Decimals).  A decimal tie is no
\* exact double, so Python settles it by the binary value; the draws and
\* coordinates followed below have no tie
RoundUnits(v) ==
    LET q == v \div Grain
        r == v % Grain
    IN  IF 2 * r < Grain THEN q
        ELSE IF 2 * r > Grain THEN q + 1
        ELSE IF q % 2 = 0 THEN q ELSE q + 1

\* round(v, 6), in the model's units
Round6(v) == Grain * RoundUnits(v)

---------------------------------------------------------------------------
(* Geometry: the shapely predicates the sampler calls *)

\* a literal of the source with four decimals, in the model's units
Deg4(a) == a * Pow10(Decimals + 1 - 4)

\* malta_coords, the fallback ring
malta_coords ==
    << <<Deg4(141836), Deg4(357836)>>,
       <<Deg4(141836), Deg4(358889)>>,
       <<Deg4(142500), Deg4(359500)>>,
       <<Deg4(145000), Deg4(359500)>>,
       <<Deg4(145677), Deg4(358889)>>,
       <<Deg4(145677), Deg4(358000)>>,
       <<Deg4(144500), Deg4(357836)>>,
       <<Deg4(143000), Deg4(357836)>>,
       <<Deg4(141836), Deg4(357836)>> >>

\* the k-th coordinates of the ring's vertices
Coords(ring, k) == {ring[i][k] : i \in 1..Len(ring)}

SetMin(S) == CHOOSE m \in S : \A v \in S : m <= v

SetMax(S) == CHOOSE m \in S : \A v \in S : m >= v

\* malta_boundary.bounds
Bounds(ring) ==
    [minx |-> SetMin(Coords(ring, 1)), miny |-> SetMin(Coords(ring, 2)),
     maxx |-> SetMax(Coords(ring, 1)), maxy |-> SetMax(Coords(ring, 2))]

InBox(p, a, b) ==
    /\ Min(a[1], b[1]) <= p[1] /\ p[1] <= Max(a[1], b[1])
    /\ Min(a[2], b[2]) <= p[2] /\ p[2] <= Max(a[2], b[2])

\* > 0 when p is left of the directed line a -> b, 0 when on it
Cross(a, b, p) ==
    (b[1] - a[1]) * (p[2] - a[2]) - (b[2] - a[2]) * (p[1] - a[1])

OnSegment(p, a, b) == InBox(p, a, b) /\ Cross(a, b, p) = 0

\* the point lies on the ring: polygon.touches(point)
Touches(ring, p) ==
    \E i \in 1..(Len(ring) - 1) : OnSegment(p, ring[i], ring[i + 1])

\* the ray from p towards +x crosses the edge a -> b
RayCrosses(p, a, b) ==
    /\ (a[2] > p[2]) # (b[2] > p[2])
    /\ IF p[1] < Min(a[1], b[1]) THEN TRUE
       ELSE IF p[1] > Max(a[1], b[1]) THEN FALSE
       ELSE IF b[2] > a[2] THEN Cross(a, b, p) > 0
       ELSE Cross(a, b, p) < 0

Crossings(ring, p) ==
    Cardinality({i \in 1..(Len(ring) - 1) : RayCrosses(p, ring[i], ring[i + 1])})

\* the point lies in the interior: polygon.contains(point)
Contains(ring, p) == ~Touches(ring, p) /\ Crossings(ring, p) % 2 = 1

\* twice the signed area of the ring is not computed (it overflows for the
\* fallback ring); a ring is degenerate here when its bounding box is flat
ZeroArea(ring) ==
    LET b == Bounds(ring) IN b.minx = b.maxx \/ b.miny = b.maxy

---------------------------------------------------------------------------
(* Boundary Provider: get_malta_boundary *)

\* a point of the region the remote service is asked about
Origin == <<Deg4(144000), Deg4(359000)>>

At(o, dx, dy) == <<o[1] + dx, o[2] + dy>>

\* rings the remote service may answer with: a triangle, a rectangle that
\* fills its bounding box, and a single point repeated (zero area)
OsmTriangle ==
    <<At(Origin, 0, 0), At(Origin, 40, 0), At(Origin, 0, 30), At(Origin, 0, 0)>>

OsmBox ==
    <<At(Origin, 0, 0), At(Origin, 16, 0), At(Origin, 16, 20),
      At(Origin, 0, 20), At(Origin, 0, 0)>>

OsmPoint ==
    <<At(Origin, 0, 0), At(Origin, 0, 0), At(Origin, 0, 0), At(Origin, 0, 0)>>

OsmRings == {OsmTriangle, OsmBox, OsmPoint}

\* what the single requests.get of the lookup can do
NetOutcomes ==
    {"request_exception",  \* requests.get raises (no connection, timeout)
     "status_not_200",     \* response.status_code != 200
     "json_error",         \* response.json() raises
     "empty_features",     \* data['features'] is empty
     "feature_error",      \* from_features / set_crs raises
     "ok"}                 \* a feature collection with a first feature

\* the outcomes in which the try block raises
Raises(outcome) ==
    outcome \in {"request_exception", "json_error", "feature_error"}

\* `except requests.RequestException`: only a failed request is caught
CaughtRequestOnly(outcome) == outcome = "request_exception"

\* `except Exception as e`: every exception of the try block is caught
Caught(outcome) == Raises(outcome)

NoBoundary ==
    [ring |-> <<>>, source |-> "none", notice |-> FALSE, warning |-> FALSE,
     raised |-> FALSE]

\* the value returned for a lookup outcome; osm is the ring of the first
\* feature of the answer
get_malta_boundary(outcome, osm) ==
    IF outcome = "ok"
    THEN [ring |-> osm, source |-> "osm", notice |-> FALSE,
          warning |-> FALSE, raised |-> FALSE]
    ELSE IF Raises(outcome) /\ ~Caught(outcome)
    THEN [NoBoundary EXCEPT !.raised = TRUE]
    ELSE [ring |-> malta_coords, source |-> "fallback", notice |-> TRUE,
          warning |-> Raises(outcome), raised |-> FALSE]

---------------------------------------------------------------------------
(* Point Sampler: generate_malta_points *)

\* the vertex of the fallback ring where the west edge meets the slanted
\* north-west edge
NorthWest == malta_coords[2]

\* the draws of random.uniform the model follows: points of the lattice
\* around Origin (inside the island) and around NorthWest
SampleDraws ==
    {At(Origin, 0, 0), At(Origin, 6, 6), At(Origin, 16, 18),
     At(Origin, 34, 18), At(NorthWest, 14, 6), At(NorthWest, 6, 14)}

\* random.uniform(minx, maxx), random.uniform(miny, maxy)
Draws(ring) ==
    LET b == Bounds(ring)
    IN  {p \in SampleDraws : /\ b.minx <= p[1] /\ p[1] <= b.maxx
                             /\ b.miny <= p[2] /\ p[2] <= b.maxy}

\* malta_boundary.contains(point) or malta_boundary.touches(point); shapely
\* promises nothing for an invalid (zero-area) polygon
AcceptOutcomes(ring, p) ==
    IF ZeroArea(ring) THEN BOOLEAN
    ELSE {Contains(ring, p) \/ Touches(ring, p)}

\* (rounded_lat, rounded_lon)
StoredPoint(p) == <<Round6(p[2]), Round6(p[1])>>

\* max_attempts = num_points * 20
MaxAttempts(n) == n * AttemptMultiplier

\* the loop without its attempt budget
LoopCondNoBudget(pts, n, att, maxatt) == Len(pts) < n

\* the loop with both comparisons off by one
LoopCondInclusive(pts, n, att, maxatt) == Len(pts) <= n /\ att <= maxatt

\* while len(points) < num_points and attempts < max_attempts
LoopCond(pts, n, att, maxatt) == Len(pts) < n /\ att < maxatt

\* the warning also on a full list
ShortfallWarnInclusive(pts, n) == Len(pts) <= n

\* if len(points) < num_points: print("Warning: ...")
ShortfallWarn(pts, n) == Len(pts) < n

---------------------------------------------------------------------------
(* Formatting: strings are sequences of one-character strings *)

DigitChars == <<"0", "1", "2", "3", "4", "5", "6", "7", "8", "9">>

\* the decimal digits of n >= 0
RECURSIVE DecStr(_)
DecStr(n) ==
    IF n < 10 THEN <<DigitChars[n + 1]>>
    ELSE DecStr(n \div 10) \o <<DigitChars[(n % 10) + 1]>>

\* the last w decimal digits of n >= 0, zero-padded
RECURSIVE FixedDigits(_, _)
FixedDigits(n, w) ==
    IF w = 0 THEN <<>>
    ELSE FixedDigits(n \div 10, w - 1) \o <<DigitChars[(n % 10) + 1]>>

\* f"{v:.6f}": the sign, the integer part, a point and six decimals of the
\* value rounded to six decimals
Fmt6(v) ==
    LET u == Abs(RoundUnits(v))
    IN  (IF v < 0 THEN <<"-">> ELSE <<>>)
        \o DecStr(u \div Pow10(Decimals))
        \o <<".">>
        \o FixedDigits(u % Pow10(Decimals), Decimals)

\* the two coordinates in the order of the tuple
FormatPointLatFirst(pt) == Fmt6(pt[1]) \o <<",">> \o Fmt6(pt[2])

\* f"{lon:.6f},{lat:.6f}" for the point (lat, lon)
FormatPoint(pt) == Fmt6(pt[2]) \o <<",">> \o Fmt6(pt[1])

\* sep.join(segs)
RECURSIVE Join(_, _)
Join(segs, sep) ==
    IF segs = <<>> THEN <<>>
    ELSE IF Len(segs) = 1 THEN segs[1]
    ELSE segs[1] \o sep \o Join(Tail(segs), sep)

\* format_points_for_api(points)
format_points_for_api(pts) ==
    Join([i \in 1..Len(pts) |-> FormatPoint(pts[i])], <<";">>)

\* points_data of save_points_to_file
PointsData(pts) ==
    [i \in 1..Len(pts) |->
        [id |-> i, latitude |-> pts[i][1], longitude |-> pts[i][2],
         coordinates |-> Fmt6(pts[i][1]) \o <<",", " ">> \o Fmt6(pts[i][2])]]

\* points[:k]
Take(pts, k) == SubSeq(pts, 1, Min(k, Len(pts)))

---------------------------------------------------------------------------
(* Submission: make_driving_api_request *)

\* what the requests.post can do: raise a RequestException, or answer with
\* a status and a body that is a JSON object, other JSON, or no JSON
PostOutcomes ==
    {[raises |-> TRUE, status |-> 0, body |-> "none"]}
    \cup {[raises |-> FALSE, status |-> 200, body |-> b] :
             b \in {"object", "array", "text"}}
    \cup {[raises |-> FALSE, status |-> s, body |-> "text"] : s \in {201, 500}}

\* no POST made yet
NoPost == [raises |-> FALSE, status |-> 0, body |-> "none"]

\* the keys of the table service's answer
ApiKeys == {"code", "durations", "sources", "destinations"}

\* if response.status_code == 200
StatusOk(status) == status = 200

\* the value returned, or the exception raised, for an outcome of the POST
make_driving_api_request(outcome) ==
    IF outcome.raises
    THEN [src |-> "request_error", keys |-> {"error", "suggestion"},
          raised |-> "none"]
    ELSE IF StatusOk(outcome.status)
    THEN CASE outcome.body = "object" ->
                  [src |-> "api",
                   keys |-> ApiKeys \cup {"request_duration_seconds"},
                   raised |-> "none"]
           [] outcome.body = "text" ->
                  [src |-> "raw",
                   keys |-> {"raw_response", "request_duration_seconds"},
                   raised |-> "none"]
           [] OTHER ->
                  \* data is a list, a string, a number or None:
                  \* data['request_duration_seconds'] = duration
                  [src |-> "none", keys |-> {}, raised |-> "TypeError"]
    ELSE [src |-> "status_error",
          keys |-> {"error", "response_text", "request_duration_seconds"},
          raised |-> "none"]

\* what open(filename, 'w') and the write can do
IoOutcomes == {"ok", "os_error"}

\* the run goes on whatever the list holds
NoPointsNever(pts) == FALSE

\* if not malta_points
NoPoints(pts) == pts = <<>>

---------------------------------------------------------------------------
(* The run *)

\* -n/--num_points, type=int
Counts == (-1)..MaxCount

Init ==
    /\ pc = "main"
    /\ num_points \in Counts
    /\ net_outcome = "none"
    /\ net_attempts = 0
    /\ boundary = NoBoundary
    /\ points = <<>>
    /\ attempts = 0
    /\ max_attempts = 0
    /\ warned = FALSE
    /\ files = <<>>
    /\ api_format = <<>>
    /\ posts = 0
    /\ post_outcome = NoPost
    /\ api_response = [src |-> "none", keys |-> {}]
    /\ escaped = "none"

\* generate_malta_points up to its loop: the boundary lookup, the bounding
\* box, the empty list and the budget
EnterGenerate ==
    /\ pc = "main"
    /\ \E outcome \in NetOutcomes, osm \in OsmRings :
          LET r == get_malta_boundary(outcome, osm)
          IN  /\ net_outcome' = outcome
              /\ net_attempts' = net_attempts + 1
              /\ boundary' = r
              /\ IF r.raised
                 THEN /\ escaped' = "Exception"
                      /\ pc' = "failed"
                      /\ UNCHANGED <<points, attempts, max_attempts>>
                 ELSE /\ points' = <<>>
                      /\ attempts' = 0
                      /\ max_attempts' = MaxAttempts(num_points)
                      /\ pc' = "loop"
                      /\ UNCHANGED escaped
    /\ UNCHANGED <<num_points, warned, files, api_format, posts,
                   post_outcome, api_response>>

\* one iteration of the sampling loop
LoopIter ==
    /\ pc = "loop"
    /\ LoopCond(points, num_points, attempts, max_attempts)
    /\ \E p \in Draws(boundary.ring) :
          \E acc \in AcceptOutcomes(boundary.ring, p) :
              points' = IF acc THEN Append(points, StoredPoint(p)) ELSE points
    /\ attempts' = attempts + 1
    /\ UNCHANGED <<pc, num_points, net_outcome, net_attempts, boundary,
                   max_attempts, warned, files, api_format, posts,
                   post_outcome, api_response, escaped>>

\* the loop ends: the shortfall warning, and return points
LoopExit ==
    /\ pc = "loop"
    /\ ~LoopCond(points, num_points, attempts, max_attempts)
    /\ warned' = ShortfallWarn(points, num_points)
    /\ pc' = "returned"
    /\ UNCHANGED <<num_points, net_outcome, net_attempts, boundary, points,
                   attempts, max_attempts, files, api_format, posts,
                   post_outcome, api_response, escaped>>

\* main after generate_malta_points returned: exit() on an empty list,
\* else print_points
CheckPoints ==
    /\ pc = "returned"
    /\ pc' = IF NoPoints(points) THEN "exited" ELSE "save_points"
    /\ UNCHANGED <<num_points, net_outcome, net_attempts, boundary, points,
                   attempts, max_attempts, warned, files, api_format, posts,
                   post_outcome, api_response, escaped>>

\* save_points_to_file(malta_points)
SavePoints ==
    /\ pc = "save_points"
    /\ \E io \in IoOutcomes :
          IF io = "ok"
          THEN /\ files' = Append(files, [name |-> "malta_points.json",
                                          content |-> PointsData(points)])
               /\ pc' = "save_api_format"
               /\ UNCHANGED escaped
          ELSE /\ escaped' = "OSError"
               /\ pc' = "failed"
               /\ UNCHANGED files
    /\ UNCHANGED <<num_points, net_outcome, net_attempts, boundary, points,
                   attempts, max_attempts, warned, api_format, posts,
                   post_outcome, api_response>>

\* save_api_formatted_points(malta_points)
SaveApiFormat ==
    /\ pc = "save_api_format"
    /\ api_format' = format_points_for_api(points)
    /\ \E io \in IoOutcomes :
          IF io = "ok"
          THEN /\ files' = Append(files,
                              [name |-> "malta_points_api_format.txt",
                               content |-> api_format'])
               /\ pc' = "samples"
               /\ UNCHANGED escaped
          ELSE /\ escaped' = "OSError"
               /\ pc' = "failed"
               /\ UNCHANGED files
    /\ UNCHANGED <<num_points, net_outcome, net_attempts, boundary, points,
                   attempts, max_attempts, warned, posts, post_outcome,
                   api_response>>

\* the sample format and the sample curl command of the first 5 points
ShowSamples ==
    /\ pc = "samples"
    /\ api_format' = format_points_for_api(Take(points, 5))
    /\ pc' = "request"
    /\ UNCHANGED <<num_points, net_outcome, net_attempts, boundary, points,
                   attempts, max_attempts, warned, files, posts,
                   post_outcome, api_response, escaped>>

\* api_response = make_driving_api_request(malta_points)
MakeRequest ==
    /\ pc = "request"
    /\ api_format' = format_points_for_api(points)
    /\ posts' = posts + 1
    /\ \E outcome \in PostOutcomes :
          LET r == make_driving_api_request(outcome)
          IN  /\ post_outcome' = outcome
              /\ IF r.raised = "none"
                 THEN /\ api_response' = [src |-> r.src, keys |-> r.keys]
                      /\ pc' = "save_response"
                      /\ UNCHANGED escaped
                 ELSE /\ escaped' = r.raised
                      /\ pc' = "failed"
                      /\ UNCHANGED api_response
    /\ UNCHANGED <<num_points, net_outcome, net_attempts, boundary, points,
                   attempts, max_attempts, warned, files>>

\* save_api_response_to_json(api_response, "api_response.json") and the
\* summary; a failed write is reported and the run goes on
SaveResponse ==
    /\ pc = "save_response"
    /\ \E io \in IoOutcomes :
          files' = IF io = "ok"
                   THEN Append(files, [name |-> "api_response.json",
                                       content |-> api_response])
                   ELSE files
    /\ pc' = "done"
    /\ UNCHANGED <<num_points, net_outcome, net_attempts, boundary, points,
                   attempts, max_attempts, warned, api_format, posts,
                   post_outcome, api_response, escaped>>

Next ==
    \/ EnterGenerate
    \/ LoopIter
    \/ LoopExit
    \/ CheckPoints
    \/ SavePoints
    \/ SaveApiFormat
    \/ ShowSamples
    \/ MakeRequest
    \/ SaveResponse

Spec == Init /\ [][Next]_vars

---------------------------------------------------------------------------
(* The sampler on its own, for its termination: generate_malta_points is   *)
(* entered and runs until it returns                                        *)

\* largest count of the runs whose termination is checked
MaxFairCount == 1

InitSampler == Init /\ num_points <= MaxFairCount

NextSampler == EnterGenerate \/ LoopIter \/ LoopExit

\* the interpreter keeps executing the function until it returns
FairSampler == InitSampler /\ [][NextSampler]_vars /\ WF_vars(NextSampler)

---------------------------------------------------------------------------
(* format_points_for_api on its own, applied to any list of points *)

\* coordinates with and without digits beyond the sixth decimal
FormatCoords == {-4, 20, Deg4(359000), Deg4(143000) + 16}

RECURSIVE ListsUpTo(_, _)
ListsUpTo(S, n) ==
    IF n = 0 THEN {<<>>}
    ELSE LET shorter == ListsUpTo(S, n - 1)
         IN  shorter \cup {Append(l, x) : l \in shorter, x \in S}

InitFormat ==
    /\ pc = "format_input"
    /\ points \in ListsUpTo(FormatCoords \X FormatCoords, MaxLen)
    /\ num_points = Len(points)
    /\ net_outcome = "none"
    /\ net_attempts = 0
    /\ boundary = NoBoundary
    /\ attempts = 0
    /\ max_attempts = 0
    /\ warned = FALSE
    /\ files = <<>>
    /\ api_format = <<>>
    /\ posts = 0
    /\ post_outcome = NoPost
    /\ api_response = [src |-> "none", keys |-> {}]
    /\ escaped = "none"

\* api_format = format_points_for_api(points)
ApplyFormat ==
    /\ pc = "format_input"
    /\ api_format' = format_points_for_api(points)
    /\ pc' = "formatted"
    /\ UNCHANGED <<num_points, net_outcome, net_attempts, boundary, points,
                   attempts, max_attempts, warned, files, posts,
                   post_outcome, api_response, escaped>>

NextFormat == ApplyFormat

SpecFormat == InitFormat /\ [][NextFormat]_vars

---------------------------------------------------------------------------
(* Reading the API string back: the inverse the round trip is stated with *)

\* s.split(c)
RECURSIVE SplitOn(_, _)
SplitOn(s, c) ==
    IF \E i \in 1..Len(s) : s[i] = c
    THEN LET i == CHOOSE k \in 1..Len(s) :
                      s[k] = c /\ \A j \in 1..(k - 1) : s[j] # c
         IN  <<SubSeq(s, 1, i - 1)>> \o SplitOn(SubSeq(s, i + 1, Len(s)), c)
    ELSE <<s>>

\* the segments of an API string; the empty string has none
Segments(s) == IF s = <<>> THEN <<>> ELSE SplitOn(s, ";")

DigitVal(ch) == CHOOSE d \in 0..9 : DigitChars[d + 1] = ch

RECURSIVE DigitsVal(_)
DigitsVal(ds) ==
    IF ds = <<>> THEN 0
    ELSE 10 * DigitsVal(SubSeq(ds, 1, Len(ds) - 1)) + DigitVal(ds[Len(ds)])

\* float(s) for a fixed-point literal, in the model's units
ParseNum(s) ==
    LET neg  == s # <<>> /\ s[1] = "-"
        body == IF neg THEN Tail(s) ELSE s
        part == SplitOn(body, ".")
        mag  == DigitsVal(part[1]) * Pow10(Decimals)
                + DigitsVal(part[2]) * Pow10(Decimals - Len(part[2]))
    IN  Grain * (IF neg THEN -mag ELSE mag)

\* "lon,lat" read back as the point (lat, lon)
ParsePoint(seg) ==
    LET f == SplitOn(seg, ",") IN <<ParseNum(f[2]), ParseNum(f[1])>>

ParseApi(s) ==
    LET segs == Segments(s) IN [i \in 1..Len(segs) |-> ParsePoint(segs[i])]

\* the point with both coordinates rounded to six decimals
RoundedPoint(pt) == <<Round6(pt[1]), Round6(pt[2])>>

\* C8 (as claimed): the string has one "lon,lat" segment per point, in
\* order, and reading it back yields the original list
C8_RoundTripExact ==
    pc = "formatted" =>
        /\ Len(Segments(api_format)) = Len(points)
        /\ \A i \in 1..Len(points) :
              Len(SplitOn(Segments(api_format)[i], ",")) = 2
        /\ ParseApi(api_format) = points

\* C8 (amended): the string has one "lon,lat" segment per point, in order;
\* reading it back yields every point with its coordinates rounded to six
\* decimals, hence the original list when no coordinate has more
C8_RoundTripRounded ==
    pc = "formatted" =>
        /\ Len(Segments(api_format)) = Len(points)
        /\ \A i \in 1..Len(points) :
              /\ Len(SplitOn(Segments(api_format)[i], ",")) = 2
              /\ ParsePoint(Segments(api_format)[i]) = RoundedPoint(points[i])
        /\ (\A i \in 1..Len(points) : RoundedPoint(points[i]) = points[i])
              => ParseApi(api_format) = points

\* two different points, one with digits beyond the sixth decimal, formatted
C8_Witness ==
    /\ pc = "formatted"
    /\ Len(points) = 2
    /\ points[1] # points[2]
    /\ RoundedPoint(points[1]) # points[1]
    /\ RoundedPoint(points[2]) = points[2]
    /\ points[2][1] # points[2][2]

---------------------------------------------------------------------------
(* Properties of the run *)

\* generate_malta_points has returned
Returned == pc \notin {"main", "loop", "format_input", "formatted"}

\* the point (lat, lon) lies within or on the ring
InClosed(ring, pt) ==
    LET q == <<pt[2], pt[1]>> IN Contains(ring, q) \/ Touches(ring, q)

FileNames == [i \in 1..Len(files) |-> files[i].name]

\* C1: every point of the list, as stored after rounding, lies within or on
\* the boundary polygon of the run
C1_Containment ==
    \A i \in 1..Len(points) : InClosed(boundary.ring, points[i])

\* C2 (as claimed): for every count the returned list is no longer than
\* count, and the list only grows, by at most one point per step
C2_LengthAtMostCount ==
    /\ [](Returned => Len(points) <= num_points)
    /\ [][\/ points' = points
          \/ \E pt \in {StoredPoint(p) : p \in SampleDraws} :
                points' = Append(points, pt)]_vars

\* C2 (amended): the returned list is no longer than count when count >= 0
\* and empty when count < 0, and the list only grows, by at most one point
\* per step
C2_LengthAtMostCountOrZero ==
    /\ [](Returned => Len(points) <= Max(num_points, 0))
    /\ [][\/ points' = points
          \/ \E pt \in {StoredPoint(p) : p \in SampleDraws} :
                points' = Append(points, pt)]_vars

\* the sampler returned a full list of two points
C2_Witness == pc = "returned" /\ num_points = 2 /\ Len(points) = 2

\* C3 (as claimed): for every count, attempts never exceeds count * 20, it
\* grows by one on every iteration, no iteration follows once the list is
\* full or the budget is spent, and the loop is left
C3_Terminates ==
    /\ [](pc \in {"loop", "returned"} =>
             attempts <= num_points * AttemptMultiplier)
    /\ [][pc = "loop" /\ pc' = "loop" => attempts' = attempts + 1]_vars
    /\ [][/\ pc = "loop"
          /\ \/ Len(points) >= num_points
             \/ attempts >= num_points * AttemptMultiplier
          => pc' = "returned" /\ points' = points /\ attempts' = attempts]_vars
    /\ <>(pc = "returned")

\* C3 (amended): attempts never exceeds count * 20 when count >= 0 and
\* stays 0 when count < 0; it grows by one on every iteration, no iteration
\* follows once the list is full or the budget is spent, and the loop is left
C3_TerminatesWithinBudget ==
    /\ [](pc \in {"loop", "returned"} =>
             attempts <= Max(num_points, 0) * AttemptMultiplier)
    /\ [][pc = "loop" /\ pc' = "loop" => attempts' = attempts + 1]_vars
    /\ [][/\ pc = "loop"
          /\ \/ Len(points) >= num_points
             \/ attempts >= num_points * AttemptMultiplier
          => pc' = "returned" /\ points' = points /\ attempts' = attempts]_vars
    /\ <>(pc = "returned")

\* the sampler returned from a zero-area polygon with its budget spent and
\* no point accepted
C3_Witness ==
    /\ pc = "returned"
    /\ ZeroArea(boundary.ring)
    /\ num_points = 1
    /\ points = <<>>
    /\ attempts = AttemptMultiplier

\* C4: with count = 0 the loop body never runs (no attempt, no point) and
\* the empty list is returned
C4_ZeroCount ==
    num_points = 0 =>
        /\ attempts = 0
        /\ points = <<>>
        /\ pc = "loop" =>
              ~LoopCond(points, num_points, attempts, max_attempts)

\* the sampler returned for count = 0
C4_Witness ==
    pc = "returned" /\ num_points = 0 /\ boundary.source # "none"

\* C5: the shortfall warning is printed exactly when the sampler finishes
\* with fewer than count points, only with the budget spent, and the
\* partial list is returned without an exception
C5_ShortfallWarned ==
    /\ ~Returned => ~warned
    /\ Returned =>
          /\ warned <=> Len(points) < num_points
          /\ warned => attempts = num_points * AttemptMultiplier
    /\ pc = "returned" => escaped = "none"

\* the sampler returned one point of the two asked for, with the warning
C5_Witness ==
    pc = "returned" /\ warned /\ num_points = 2 /\ Len(points) = 1

\* C6: the lookup makes one request at most, never lets an exception out,
\* returns a closed ring, returns the 9-vertex fallback ring with a notice
\* whenever the request did not yield a feature, and gives the notice only
\* with the fallback ring
C6_BoundaryFallback ==
    /\ net_attempts <= 1
    /\ escaped # "Exception"
    /\ pc # "main" =>
          /\ net_attempts = 1
          /\ ~boundary.raised
          /\ boundary.source \in {"osm", "fallback"}
          /\ Len(boundary.ring) >= 4
          /\ boundary.ring[1] = boundary.ring[Len(boundary.ring)]
          /\ net_outcome # "ok" =>
                /\ boundary.notice
                /\ boundary.source = "fallback"
          /\ boundary.notice => boundary.source = "fallback"
          /\ boundary.source = "fallback" =>
                /\ boundary.ring = malta_coords
                /\ Len(boundary.ring) = 9

\* the lookup's answer was not JSON and the fallback ring was returned
C6_Witness ==
    /\ pc = "loop"
    /\ net_outcome = "json_error"
    /\ boundary.source = "fallback"
    /\ boundary.notice

\* C7: the request never raises; a failed request or a status outside 2xx
\* gives a value with an 'error' key, a 2xx status gives the answer with
\* request_duration_seconds, and that value is what file 3 holds
C7_RequestNeverRaises ==
    posts = 1 =>
        /\ escaped = "none"
        /\ pc \in {"save_response", "done"}
        /\ (post_outcome.raises \/ post_outcome.status \notin 200..299)
              => "error" \in api_response.keys
        /\ (~post_outcome.raises /\ post_outcome.status \in 200..299)
              => /\ api_response.src \in {"api", "raw"}
                 /\ "request_duration_seconds" \in api_response.keys
        /\ \A i \in 1..Len(files) :
              files[i].name = "api_response.json"
                 => files[i].content = api_response

\* the ring is the rectangle of its own bounding box
BoxFilling(ring) ==
    LET b == Bounds(ring)
    IN  /\ ~ZeroArea(ring)
        /\ Len(ring) = 5
        /\ {ring[i] : i \in 1..Len(ring)} =
              {<<b.minx, b.miny>>, <<b.maxx, b.miny>>,
               <<b.maxx, b.maxy>>, <<b.minx, b.maxy>>}

\* C9: on a polygon that fills its bounding box, count >= 0 points are
\* returned after count attempts without a warning, and every coordinate
\* lies between the box's min and max on its axis
C9_FullYield ==
    (Returned /\ BoxFilling(boundary.ring) /\ num_points >= 0) =>
        LET b == Bounds(boundary.ring)
        IN  /\ Len(points) = num_points
            /\ attempts = num_points
            /\ ~warned
            /\ \A i \in 1..Len(points) :
                  /\ b.miny <= points[i][1] /\ points[i][1] <= b.maxy
                  /\ b.minx <= points[i][2] /\ points[i][2] <= b.maxx

\* C10: the boundary is resolved before the loop runs; the points file
\* comes before the API-format file, that before the single POST, that
\* before the response file; an empty list ends the run with no file and
\* no POST
C10_PipelineOrder ==
    /\ (pc = "loop" \/ attempts > 0 \/ points # <<>>)
          => boundary.source # "none"
    /\ files # <<>> => Returned
    /\ FileNames \in
          {<<>>,
           <<"malta_points.json">>,
           <<"malta_points.json", "malta_points_api_format.txt">>,
           <<"malta_points.json", "malta_points_api_format.txt",
             "api_response.json">>}
    /\ posts <= 1
    /\ posts = 1 => Len(files) >= 2
    /\ Len(files) = 3 => posts = 1
    /\ (Returned /\ points = <<>>) =>
          /\ files = <<>>
          /\ posts = 0
          /\ pc \in {"returned", "exited"}

\* a run that wrote all three files around its one POST
C10_Witness == pc = "done" /\ Len(files) = 3 /\ posts = 1

=============================================================================
